---- MODULE Spec2Model ----
(***************************************************************************)
(* A model of the two cores of carrosselflow:                              *)
(*   - the carousel publishing workflow of services/meta.ts                *)
(*     (publishCarouselToInstagram and the calls it awaits), and           *)
(*   - the inline markup renderer renderFormattedText of the slide view.   *)
(* Spec is the publishing workflow, RenderSpec the renderer; EditorSpec is  *)
(* the editor around them: the account, the caption and handlePublish;     *)
(* SlideSpec is the slide list of the editor and its selection; LoginSpec  *)
(* is loginToInstagram, called by the editor, and the account it gives;    *)
(* FormatSpec is the Bold and Highlight buttons of the body field.         *)
(***************************************************************************)
EXTENDS Integers, Sequences, FiniteSets, TLC

\* ------------------------------------------------------------------------
\* Bounds of the model
\* ------------------------------------------------------------------------

\* The largest number of slides a run is given blobs for.
MaxSlides == 3

\* The longest slide text, in tokens of Alphabet, the renderer is given.
MaxTokens == 5

\* How often handlePublish is called in a behaviour of the editor.
MaxPublishes == 2

\* The largest slide id given out (the ids are 1, 2, ... in the order given).
MaxSlideId == 6

\* The longest script the generator returns.
MaxScript == 2

\* How often one slide is updated.
MaxEdits == 1

\* The most Facebook Pages the account lookup is given.
MaxPages == 2

\* The slide bodies a format button is pressed on: up to so many pieces.
MaxFormatTokens == 2

\* How often a format button is pressed on one body.
MaxFormats == 1

\* ------------------------------------------------------------------------
\* Publishing workflow: values
\* ------------------------------------------------------------------------

MOCK_USER_ID == "123456789"

\* The demo account loginToInstagram falls back to, and a connected account.
DemoUser == [id |-> MOCK_USER_ID, accessToken |-> "mock_token_123"]
RealUser == [id |-> "17841400000000000", accessToken |-> "EAAG_token"]
Users == {DemoUser, RealUser}

Captions == {"caption A", "caption B"}

\* Messages a failing remote call can carry.
Messages == {"Invalid image URL", "Failed to fetch"}

RECURSIVE Increasing(_, _)
\* The strictly increasing sequences over lo..hi: the blobs of the slides that
\* rendered, in slide order (a blob is named by the slide it was rendered from).
Increasing(lo, hi) ==
    IF lo > hi THEN {<<>>}
    ELSE Increasing(lo + 1, hi)
         \cup {<<lo>> \o s : s \in Increasing(lo + 1, hi)}

BlobLists == Increasing(1, MaxSlides)

NoError == [name |-> "", message |-> ""]
NoId == [kind |-> "", n |-> 0]
NoUrl == [host |-> "", random |-> 0]

VARIABLES
    pc,              \* where publishCarouselToInstagram stands
    user,            \* its arguments
    slideBlobs,
    caption,
    onProgress,      \* TRUE when a progress sink was passed
    i,               \* the loop counter of the running loop
    imageUrls,       \* its locals
    creationId,
    itemContainers,
    result,          \* the value the promise resolved with
    error,           \* the error the promise rejected with
    settled,         \* how often the promise of this run settled
    progress,        \* what the sink has been told, in order
    uploads,         \* the uploads of this run in order: the blob, the url it got
    calls,           \* the container and publish calls of this run, in order
    responses,       \* what each of those calls came back with
    fetches,         \* the network requests of this run, in order
    lastRun,         \* the previous run that resolved
    body,            \* renderer: the text, as tokens of Alphabet
    rendered,        \* renderer: what renderFormattedText returned
    rpc,             \* renderer: "input" before the call, "rendered" after it,
                     \* "off" where no text is rendered
    instagramUser,   \* editor: the connected account, NoUser for null
    editorCaption,   \* editor: its caption state
    publishStatus,   \* editor: its state of that name
    statusMessage,   \* editor: its state of that name
    runs,            \* editor: the calls of handlePublish, each with where it
                     \* stands and what its closure holds
    slides,          \* slide list: the slides, each its id and how often it
                     \* was updated
    selectedSlideId, \* slide list: the state of that name
    nextId,          \* slide list: the next id Date.now() gives
    lastOp,          \* slide list: the handler that ran last, and whether the
                     \* update it made changed a slide
    lpc,             \* login: where the call of loginToInstagram stands
    env,             \* login: what the call found: window, the app ids, the
                     \* location, window.FB
    sdk,             \* login: what was done with the Facebook SDK
    fbLogin,         \* login: FB.login was called
    token,           \* login: the access token FB.login gave
    pagesLeft,       \* login: the Pages the lookup has still to ask about
    failure,         \* login: what failed in the real authentication
    loginResult,     \* login: the account the call resolved with
    slideBody,       \* format: the body of the selected slide
    formatted        \* format: how often handleFormatText changed the body,
                     \* and the text, the selection and the tag of the last

pubVars == <<pc, user, slideBlobs, caption, onProgress, i, imageUrls, creationId,
             itemContainers, result, error, settled, progress, uploads, calls,
             responses, fetches, lastRun>>
renderVars == <<body, rendered, rpc>>
editorVars == <<instagramUser, editorCaption, publishStatus, statusMessage, runs>>
slideVars == <<slides, selectedSlideId, nextId, lastOp>>
loginVars == <<lpc, env, sdk, fbLogin, token, pagesLeft, failure, loginResult>>
formatVars == <<slideBody, formatted>>
vars == <<pubVars, renderVars, editorVars, slideVars, loginVars, formatVars>>

\* What a step of one part leaves alone: the variables of the other parts.
exceptPub == <<renderVars, editorVars, slideVars, loginVars, formatVars>>
exceptRender == <<pubVars, editorVars, slideVars, loginVars, formatVars>>
exceptEditor == <<pubVars, renderVars, slideVars, loginVars, formatVars>>
exceptSlides == <<pubVars, renderVars, editorVars, loginVars, formatVars>>
exceptLogin == <<pubVars, renderVars, editorVars, slideVars, formatVars>>
exceptFormat == <<pubVars, renderVars, editorVars, slideVars, loginVars>>

\* ------------------------------------------------------------------------
\* Publishing workflow: the awaited calls
\* ------------------------------------------------------------------------

\* A progress notification: the text with its two numbers (0 where it has none).
Status(text, slide, of) == [text |-> text, slide |-> slide, of |-> of]

\* The editor before anything was done in it: no account, an empty caption,
\* nothing being published.
NoUser == [id |-> "", accessToken |-> ""]
NoMessage == Status("", 0, 0)

\* The ids of the slides the editor starts with.
INITIAL_SLIDES == <<1, 2, 3, 4>>

\* No format button pressed yet.
NoFormat == [n |-> 0, text |-> <<>>, start |-> 0, end |-> 0, tag |-> ""]

\* No call of loginToInstagram yet: nothing found.
NoEnv ==
    [hasWindow |-> TRUE, appId |-> "", envAppId |-> "", protocol |-> "",
     hostname |-> "", hasFB |-> FALSE]

\* A slide: its id, and how often it was updated (its content by proxy).
Slide(id) == [id |-> id, edits |-> 0]

EditorInitial ==
    /\ instagramUser = NoUser
    /\ editorCaption = ""
    /\ publishStatus = "idle"
    /\ statusMessage = NoMessage
    /\ runs = <<>>
    /\ slides = [k \in 1..Len(INITIAL_SLIDES) |-> Slide(INITIAL_SLIDES[k])]
    /\ selectedSlideId = INITIAL_SLIDES[1]
    /\ nextId = Len(INITIAL_SLIDES) + 1
    /\ lastOp = [op |-> "", applied |-> FALSE]
    /\ lpc = "idle"
    /\ env = NoEnv
    /\ sdk = "untouched"
    /\ fbLogin = FALSE
    /\ token = ""
    /\ pagesLeft = 0
    /\ failure = ""
    /\ loginResult = NoUser
    /\ formatted = NoFormat

\* if (onProgress) onProgress(status)
Notify(status) == IF onProgress THEN Append(progress, status) ELSE progress

\* The URL uploadImageToPublicServer resolves with: a stand-in that differs from
\* upload to upload by its random= parameter.
UploadedUrl(n) == [host |-> "images.unsplash.com", random |-> n]

\* The id a call returns: an opaque handle, new with every call.
ContainerId(kind) == [kind |-> kind, n |-> Len(calls)]

\* What a remote call can come back with: the simulated calls always return an
\* id; a request to the Graph API returns an id, an error payload, or fails.

Responses(userId, kind) ==
    IF userId = MOCK_USER_ID
    THEN {[status |-> "ok", message |-> "", id |-> ContainerId(kind)]}
    ELSE {[status |-> "ok", message |-> "", id |-> ContainerId("media")]}
         \cup {[status |-> s, message |-> m, id |-> NoId] :
                 s \in {"error", "network"}, m \in Messages}

\* The error a failed call throws: new Error(data.error.message) for an error
\* payload, the rejection of fetch itself for a network failure.
Thrown(r) ==
    [name |-> IF r.status = "error" THEN "Error" ELSE "TypeError", message |-> r.message]

\* ItemUrl with the caption on carousel items too.
ItemUrl_AlwaysCaption(userId, imageUrl, accessToken, cap, isCarouselItem) ==
    [path |-> "media", user |-> userId, image_url |-> <<imageUrl>>,
     access_token |-> accessToken,
     is_carousel_item |-> isCarouselItem,
     media_type |-> "",
     children |-> <<>>,
     caption |-> <<cap>>,
     creation_id |-> <<>>]

\* The request of createItemContainer: the carousel flag or the caption.
ItemUrl(userId, imageUrl, accessToken, cap, isCarouselItem) ==
    [path |-> "media", user |-> userId, image_url |-> <<imageUrl>>,
     access_token |-> accessToken,
     is_carousel_item |-> isCarouselItem,
     media_type |-> "",
     children |-> <<>>,
     caption |-> IF isCarouselItem THEN <<>> ELSE <<cap>>,
     creation_id |-> <<>>]

CarouselUrl(userId, childrenIds, accessToken, cap) ==
    [path |-> "media", user |-> userId, image_url |-> <<>>,
     access_token |-> accessToken,
     is_carousel_item |-> FALSE,
     media_type |-> "CAROUSEL",
     children |-> childrenIds,
     caption |-> <<cap>>,
     creation_id |-> <<>>]

PublishUrl(userId, id, accessToken) ==
    [path |-> "media_publish", user |-> userId, image_url |-> <<>>,
     access_token |-> accessToken,
     is_carousel_item |-> FALSE,
     media_type |-> "",
     children |-> <<>>,
     caption |-> <<>>,
     creation_id |-> <<id>>]

\* Issue without the check for the simulated account.
Issue_AlwaysFetch(op, url) ==
    /\ calls' = Append(calls, [op |-> op, url |-> url])
    /\ fetches' = Append(fetches, url)

\* A call up to its first await: the simulated account waits on a timer, any
\* other account posts the request.
Issue(op, url) ==
    /\ calls' = Append(calls, [op |-> op, url |-> url])
    /\ fetches' = IF url.user = MOCK_USER_ID THEN fetches ELSE Append(fetches, url)

createItemContainer(userId, imageUrl, accessToken, cap, isCarouselItem) ==
    Issue("createItemContainer", ItemUrl(userId, imageUrl, accessToken, cap, isCarouselItem))

createCarouselContainer(userId, childrenIds, accessToken, cap) ==
    Issue("createCarouselContainer", CarouselUrl(userId, childrenIds, accessToken, cap))

publishMedia(userId, id, accessToken) ==
    Issue("publishMedia", PublishUrl(userId, id, accessToken))

\* catch (error) { throw error }: the run ends rejected with the error thrown.
Reject(r) ==
    /\ pc' = "rejected"
    /\ error' = Thrown(r)
    /\ settled' = settled + 1

\* ------------------------------------------------------------------------
\* Publishing workflow: publishCarouselToInstagram
\* ------------------------------------------------------------------------

Terminal == pc \in {"resolved", "rejected"}

\* What is kept of a run that resolved.
Summary ==
    [mock |-> user.id = MOCK_USER_ID, n |-> Len(slideBlobs), sink |-> onProgress,
     progress |-> progress, fetches |-> Len(fetches),
     ops |-> [k \in 1..Len(calls) |-> calls[k].op]]

NoRun ==
    [mock |-> FALSE, n |-> -1, sink |-> FALSE, progress |-> <<>>, fetches |-> 0,
     ops |-> <<>>]

PubInit ==
    /\ pc = "idle"
    /\ user = DemoUser
    /\ slideBlobs = <<>>
    /\ caption = "caption A"
    /\ onProgress = FALSE
    /\ i = 0
    /\ imageUrls = <<>>
    /\ creationId = NoId
    /\ itemContainers = <<>>
    /\ result = NoId
    /\ error = NoError
    /\ settled = 0
    /\ progress = <<>>
    /\ uploads = <<>>
    /\ calls = <<>>
    /\ responses = <<>>
    /\ fetches = <<>>
    /\ lastRun = NoRun

\* A call of publishCarouselToInstagram: a new run, once the one before ended.
Publish(u, blobs, cap, sink) ==
    /\ pc = "idle" \/ Terminal
    /\ lastRun' = IF pc = "resolved" THEN Summary ELSE lastRun
    /\ user' = u
    /\ slideBlobs' = blobs
    /\ caption' = cap
    /\ onProgress' = sink
    /\ pc' = "uploadLoop"
    /\ i' = 0
    /\ imageUrls' = <<>>
    /\ creationId' = NoId
    /\ itemContainers' = <<>>
    /\ result' = NoId
    /\ error' = NoError
    /\ settled' = 0
    /\ progress' = <<>>
    /\ uploads' = <<>>
    /\ calls' = <<>>
    /\ responses' = <<>>
    /\ fetches' = <<>>

\* UploadStart going on to the next blob without awaiting the upload.
UploadStart_NoAwait ==
    /\ pc = "uploadLoop"
    /\ i < Len(slideBlobs)
    /\ progress' = Notify(Status("Uploading slide", i + 1, Len(slideBlobs)))
    /\ uploads' = Append(uploads, [blob |-> slideBlobs[i + 1], url |-> NoUrl])
    /\ imageUrls' = Append(imageUrls, NoUrl)
    /\ i' = i + 1
    /\ pc' = "uploadLoop"
    /\ UNCHANGED <<user, slideBlobs, caption, onProgress, creationId,
                   itemContainers, result, error, settled, calls, responses,
                   fetches, lastRun>>

\* UploadStart announcing the first slide every time.
UploadStart_StaleIndex ==
    /\ pc = "uploadLoop"
    /\ i < Len(slideBlobs)
    /\ progress' = Notify(Status("Uploading slide", 1, Len(slideBlobs)))
    /\ uploads' = Append(uploads, [blob |-> slideBlobs[i + 1], url |-> NoUrl])
    /\ pc' = "uploadAwait"
    /\ UNCHANGED <<user, slideBlobs, caption, onProgress, i, imageUrls, creationId,
                   itemContainers, result, error, settled, calls, responses,
                   fetches, lastRun>>

\* for (i < slideBlobs.length): the notification, then the upload is awaited.
UploadStart ==
    /\ pc = "uploadLoop"
    /\ i < Len(slideBlobs)
    /\ progress' = Notify(Status("Uploading slide", i + 1, Len(slideBlobs)))
    /\ uploads' = Append(uploads, [blob |-> slideBlobs[i + 1], url |-> NoUrl])
    /\ pc' = "uploadAwait"
    /\ UNCHANGED <<user, slideBlobs, caption, onProgress, i, imageUrls, creationId,
                   itemContainers, result, error, settled, calls, responses,
                   fetches, lastRun>>

\* UploadDone with unshift in place of push.
UploadDone_Unshift ==
    /\ pc = "uploadAwait"
    /\ imageUrls' = <<UploadedUrl(Len(uploads))>> \o imageUrls
    /\ uploads' = [uploads EXCEPT ![Len(uploads)].url = UploadedUrl(Len(uploads))]
    /\ i' = i + 1
    /\ pc' = "uploadLoop"
    /\ UNCHANGED <<user, slideBlobs, caption, onProgress, creationId,
                   itemContainers, result, error, settled, progress,
                   calls, responses, fetches, lastRun>>

\* The upload resolves: imageUrls.push(url).
UploadDone ==
    /\ pc = "uploadAwait"
    /\ imageUrls' = Append(imageUrls, UploadedUrl(Len(uploads)))
    /\ uploads' = [uploads EXCEPT ![Len(uploads)].url = UploadedUrl(Len(uploads))]
    /\ i' = i + 1
    /\ pc' = "uploadLoop"
    /\ UNCHANGED <<user, slideBlobs, caption, onProgress, creationId,
                   itemContainers, result, error, settled, progress,
                   calls, responses, fetches, lastRun>>

\* BeginContainers taking the single-image path for any list that is not empty.
BeginContainers_AnyIsSingle ==
    /\ pc = "uploadLoop"
    /\ i = Len(slideBlobs)
    /\ creationId' = NoId
    /\ itemContainers' = <<>>
    /\ i' = 0
    /\ pc' = IF Len(imageUrls) >= 1 THEN "single" ELSE "itemLoop"
    /\ UNCHANGED <<user, slideBlobs, caption, onProgress, imageUrls, result, error,
                   settled, progress, uploads, calls, responses, fetches, lastRun>>

\* BeginContainers without the single-image path.
BeginContainers_AlwaysCarousel ==
    /\ pc = "uploadLoop"
    /\ i = Len(slideBlobs)
    /\ creationId' = NoId
    /\ itemContainers' = <<>>
    /\ i' = 0
    /\ pc' = "itemLoop"
    /\ UNCHANGED <<user, slideBlobs, caption, onProgress, imageUrls, result, error,
                   settled, progress, uploads, calls, responses, fetches, lastRun>>

\* let creationId = ''; if (imageUrls.length === 1) ... else ...
BeginContainers ==
    /\ pc = "uploadLoop"
    /\ i = Len(slideBlobs)
    /\ creationId' = NoId
    /\ itemContainers' = <<>>
    /\ i' = 0
    /\ pc' = IF Len(imageUrls) = 1 THEN "single" ELSE "itemLoop"
    /\ UNCHANGED <<user, slideBlobs, caption, onProgress, imageUrls, result, error,
                   settled, progress, uploads, calls, responses, fetches, lastRun>>

\* Single image post: the one container carries the caption.
SingleCall ==
    /\ pc = "single"
    /\ progress' = Notify(Status("Creating media container...", 0, 0))
    /\ createItemContainer(user.id, imageUrls[1], user.accessToken, caption, FALSE)
    /\ pc' = "singleAwait"
    /\ UNCHANGED <<user, slideBlobs, caption, onProgress, i, imageUrls, creationId,
                   itemContainers, result, error, settled, uploads, responses, lastRun>>

SingleReturn ==
    /\ pc = "singleAwait"
    /\ \E r \in Responses(user.id, "item_container") :
         /\ responses' = Append(responses, r)
         /\ IF r.status = "ok"
            THEN /\ creationId' = r.id
                 /\ pc' = "finalize"
                 /\ UNCHANGED <<error, settled>>
            ELSE /\ Reject(r)
                 /\ UNCHANGED creationId
    /\ UNCHANGED <<user, slideBlobs, caption, onProgress, i, imageUrls,
                   itemContainers, result, progress, uploads, calls, fetches, lastRun>>

\* Carousel post: for (i < imageUrls.length) one carousel item per url.
ItemCall ==
    /\ pc = "itemLoop"
    /\ i < Len(imageUrls)
    /\ progress' = Notify(Status("Preparing slide", i + 1, 0))
    /\ createItemContainer(user.id, imageUrls[i + 1], user.accessToken, "", TRUE)
    /\ pc' = "itemAwait"
    /\ UNCHANGED <<user, slideBlobs, caption, onProgress, i, imageUrls, creationId,
                   itemContainers, result, error, settled, uploads, responses, lastRun>>

\* ItemReturn going on to the next item when the call failed.
ItemReturn_Swallow ==
    /\ pc = "itemAwait"
    /\ \E r \in Responses(user.id, "item_container") :
         /\ responses' = Append(responses, r)
         /\ itemContainers' = Append(itemContainers, r.id)
         /\ i' = i + 1
         /\ pc' = "itemLoop"
         /\ UNCHANGED <<error, settled>>
    /\ UNCHANGED <<user, slideBlobs, caption, onProgress, imageUrls, creationId,
                   result, progress, uploads, calls, fetches, lastRun>>

ItemReturn ==
    /\ pc = "itemAwait"
    /\ \E r \in Responses(user.id, "item_container") :
         /\ responses' = Append(responses, r)
         /\ IF r.status = "ok"
            THEN /\ itemContainers' = Append(itemContainers, r.id)
                 /\ i' = i + 1
                 /\ pc' = "itemLoop"
                 /\ UNCHANGED <<error, settled>>
            ELSE /\ Reject(r)
                 /\ UNCHANGED <<itemContainers, i>>
    /\ UNCHANGED <<user, slideBlobs, caption, onProgress, imageUrls, creationId,
                   result, progress, uploads, calls, fetches, lastRun>>

CarouselCall ==
    /\ pc = "itemLoop"
    /\ i = Len(imageUrls)
    /\ progress' = Notify(Status("Creating carousel object...", 0, 0))
    /\ createCarouselContainer(user.id, itemContainers, user.accessToken, caption)
    /\ pc' = "carouselAwait"
    /\ UNCHANGED <<user, slideBlobs, caption, onProgress, i, imageUrls, creationId,
                   itemContainers, result, error, settled, uploads, responses, lastRun>>

\* CarouselReturn leaving creationId as it was.
CarouselReturn_NoAssign ==
    /\ pc = "carouselAwait"
    /\ \E r \in Responses(user.id, "carousel_container") :
         /\ responses' = Append(responses, r)
         /\ IF r.status = "ok"
            THEN /\ pc' = "finalize"
                 /\ UNCHANGED <<error, settled>>
            ELSE Reject(r)
    /\ UNCHANGED <<user, slideBlobs, caption, onProgress, i, imageUrls, creationId,
                   itemContainers, result, progress, uploads, calls, fetches, lastRun>>

CarouselReturn ==
    /\ pc = "carouselAwait"
    /\ \E r \in Responses(user.id, "carousel_container") :
         /\ responses' = Append(responses, r)
         /\ IF r.status = "ok"
            THEN /\ creationId' = r.id
                 /\ pc' = "finalize"
                 /\ UNCHANGED <<error, settled>>
            ELSE /\ Reject(r)
                 /\ UNCHANGED creationId
    /\ UNCHANGED <<user, slideBlobs, caption, onProgress, i, imageUrls,
                   itemContainers, result, progress, uploads, calls, fetches, lastRun>>

\* FinalizeCall without its notification.
FinalizeCall_Silent ==
    /\ pc = "finalize"
    /\ publishMedia(user.id, creationId, user.accessToken)
    /\ pc' = "publishAwait"
    /\ UNCHANGED <<user, slideBlobs, caption, onProgress, i, imageUrls, creationId,
                   itemContainers, result, error, settled, progress, uploads,
                   responses, lastRun>>

\* Step 3: publish the container created last.
FinalizeCall ==
    /\ pc = "finalize"
    /\ progress' = Notify(Status("Finalizing publication...", 0, 0))
    /\ publishMedia(user.id, creationId, user.accessToken)
    /\ pc' = "publishAwait"
    /\ UNCHANGED <<user, slideBlobs, caption, onProgress, i, imageUrls, creationId,
                   itemContainers, result, error, settled, uploads, responses, lastRun>>

\* FinalizeReturn with a timeout of its own: the run is given up, as rejected,
\* when the response does not come.
FinalizeReturn_TimesOut ==
    /\ pc = "publishAwait"
    /\ \/ \E r \in Responses(user.id, "published_media") :
              /\ responses' = Append(responses, r)
              /\ IF r.status = "ok"
                 THEN /\ result' = r.id
                      /\ pc' = "resolved"
                      /\ settled' = settled + 1
                      /\ UNCHANGED error
                 ELSE /\ Reject(r)
                      /\ UNCHANGED result
       \/ /\ Reject([status |-> "network", message |-> "Failed to fetch", id |-> NoId])
          /\ UNCHANGED <<responses, result>>
    /\ UNCHANGED <<user, slideBlobs, caption, onProgress, i, imageUrls, creationId,
                   itemContainers, progress, uploads, calls, fetches, lastRun>>

FinalizeReturn ==
    /\ pc = "publishAwait"
    /\ \E r \in Responses(user.id, "published_media") :
         /\ responses' = Append(responses, r)
         /\ IF r.status = "ok"
            THEN /\ result' = r.id
                 /\ pc' = "resolved"
                 /\ settled' = settled + 1
                 /\ UNCHANGED error
            ELSE /\ Reject(r)
                 /\ UNCHANGED result
    /\ UNCHANGED <<user, slideBlobs, caption, onProgress, i, imageUrls, creationId,
                   itemContainers, progress, uploads, calls, fetches, lastRun>>

RenderIdle ==
    /\ body = <<>>
    /\ rendered = <<>>
    /\ rpc = "off"

\* The body of the slide selected first, a letter for each run of letters:
\* 'The secret ... <mark>psychology</mark>.'
INITIAL_BODY ==
    <<"x", "<", "m", "a", "r", "k", ">", "x", "<", "/", "m", "a", "r", "k", ">", "x">>

Init == PubInit /\ RenderIdle /\ EditorInitial /\ slideBody = INITIAL_BODY

Next ==
    \/ \E u \in Users, blobs \in BlobLists, cap \in Captions, sink \in BOOLEAN :
         Publish(u, blobs, cap, sink) /\ UNCHANGED exceptPub
    \/ UploadStart /\ UNCHANGED exceptPub
    \/ UploadDone /\ UNCHANGED exceptPub
    \/ BeginContainers /\ UNCHANGED exceptPub
    \/ SingleCall /\ UNCHANGED exceptPub
    \/ SingleReturn /\ UNCHANGED exceptPub
    \/ ItemCall /\ UNCHANGED exceptPub
    \/ ItemReturn /\ UNCHANGED exceptPub
    \/ CarouselCall /\ UNCHANGED exceptPub
    \/ CarouselReturn /\ UNCHANGED exceptPub
    \/ FinalizeCall /\ UNCHANGED exceptPub
    \/ FinalizeReturn /\ UNCHANGED exceptPub

Spec == Init /\ [][Next]_vars

\* The awaits of a remote call: of fetch for an account that is not the demo
\* account, of a timer for the demo account.
RemoteAwaits == {"singleAwait", "itemAwait", "carouselAwait", "publishAwait"}

\* A step of the run under way that the program takes by itself: a step of
\* its own code, or the firing of a timer (the simulated upload, the
\* simulated calls of the demo account). A response to fetch is none.
TimedStep ==
    /\ pc \notin RemoteAwaits \/ user.id = MOCK_USER_ID
    /\ \/ UploadStart \/ UploadDone \/ BeginContainers
       \/ SingleCall \/ SingleReturn
       \/ ItemCall \/ ItemReturn
       \/ CarouselCall \/ CarouselReturn
       \/ FinalizeCall \/ FinalizeReturn
    /\ UNCHANGED exceptPub

\* The workflow with its scheduling: timers fire and code between awaits
\* runs; no remote call is bound to respond.
FairSpec == Init /\ [][Next]_vars /\ WF_vars(TimedStep)

\* ------------------------------------------------------------------------
\* Markup renderer: strings
\* ------------------------------------------------------------------------

\* A string is the sequence of its characters. The texts rendered are built
\* from these pieces: the four tags, a letter, the newline, the carriage return.
OpenB == <<"<", "b", ">">>
CloseB == <<"<", "/", "b", ">">>
OpenMark == <<"<", "m", "a", "r", "k", ">">>
CloseMark == <<"<", "/", "m", "a", "r", "k", ">">>
Letter == <<"x">>
Newline == <<"\n">>
CarriageReturn == <<"\r">>

Alphabet == {OpenB, CloseB, OpenMark, CloseMark, Letter, Newline, CarriageReturn}

\* The slide texts of the model: up to MaxTokens pieces of Alphabet.
Bodies == UNION {[1..n -> Alphabet] : n \in 0..MaxTokens}

RECURSIVE Flatten(_)
\* The string a sequence of pieces spells.
Flatten(toks) == IF toks = <<>> THEN <<>> ELSE Head(toks) \o Flatten(Tail(toks))

\* s.startsWith(pat) from the (1-based) position q
StartsWithAt(s, pat, q) ==
    /\ q + Len(pat) - 1 <= Len(s)
    /\ SubSeq(s, q, q + Len(pat) - 1) = pat

StartsWith(s, pat) == StartsWithAt(s, pat, 1)

EndsWith(s, pat) ==
    /\ Len(pat) <= Len(s)
    /\ SubSeq(s, Len(s) - Len(pat) + 1, Len(s)) = pat

\* s.slice(from, -fromEnd)
Slice(s, from, fromEnd) ==
    LET a == IF from < Len(s) THEN from ELSE Len(s)
        b == IF Len(s) - fromEnd > 0 THEN Len(s) - fromEnd ELSE 0
    IN  IF a >= b THEN <<>> ELSE SubSeq(s, a + 1, b)

RECURSIVE Split(_, _)
\* Split leaving out the pieces that are empty.
Split_DropEmpty(s, sep) ==
    LET at == {k \in 1..Len(s) : s[k] = sep}
        first == CHOOSE k \in at : \A m \in at : k <= m
    IN  IF at = {} THEN (IF s = <<>> THEN <<>> ELSE <<s>>)
        ELSE (IF first = 1 THEN <<>> ELSE <<SubSeq(s, 1, first - 1)>>)
             \o Split(SubSeq(s, first + 1, Len(s)), sep)

\* s.split(sep) for a separator of one character: the pieces between the
\* separators, one more than there are separators.
Split(s, sep) ==
    LET at == {k \in 1..Len(s) : s[k] = sep}
        first == CHOOSE k \in at : \A m \in at : k <= m
    IN  IF at = {} THEN <<s>>
        ELSE <<SubSeq(s, 1, first - 1)>> \o Split(SubSeq(s, first + 1, Len(s)), sep)

\* ------------------------------------------------------------------------
\* Markup renderer: the pattern /(<b>.*?<\/b>|<mark>.*?<\/mark>)/g
\* ------------------------------------------------------------------------

\* The characters the wildcard . does not match.
LineTerminator(c) == c \in {"\n", "\r"}

RECURSIVE LazyClose_Greedy(_, _, _)
\* .* followed by the closing tag: the last closing tag that is reached.
LazyClose_Greedy(s, k, close) ==
    IF k > Len(s) THEN 0
    ELSE IF LineTerminator(s[k]) THEN 0
    ELSE LET later == LazyClose_Greedy(s, k + 1, close)
         IN  IF later # 0 THEN later
             ELSE IF StartsWithAt(s, close, k) THEN k
             ELSE 0

RECURSIVE LazyClose_NoTagsInside(_, _, _)
\* [^<]* followed by the closing tag: no tag is passed over.
LazyClose_NoTagsInside(s, k, close) ==
    IF StartsWithAt(s, close, k) THEN k
    ELSE IF k > Len(s) THEN 0
    ELSE IF LineTerminator(s[k]) \/ s[k] = "<" THEN 0
    ELSE LazyClose_NoTagsInside(s, k + 1, close)

RECURSIVE LazyClose(_, _, _)
\* .*? followed by the closing tag, from position k: the position of the first
\* closing tag reached over characters the wildcard matches, 0 when none is.
LazyClose(s, k, close) ==
    IF StartsWithAt(s, close, k) THEN k
    ELSE IF k > Len(s) THEN 0
    ELSE IF LineTerminator(s[k]) THEN 0
    ELSE LazyClose(s, k + 1, close)

\* The pattern tried at position q: the position of the last character of the
\* match, 0 when it does not match there.
MatchAt(s, q) ==
    LET b == IF StartsWithAt(s, OpenB, q) THEN LazyClose(s, q + Len(OpenB), CloseB) ELSE 0
        m == IF StartsWithAt(s, OpenMark, q)
             THEN LazyClose(s, q + Len(OpenMark), CloseMark) ELSE 0
    IN  IF b # 0 THEN b + Len(CloseB) - 1
        ELSE IF m # 0 THEN m + Len(CloseMark) - 1
        ELSE 0

RECURSIVE SplitTags_NoCapture(_, _, _)
\* line.split(pattern) with a pattern that has no capture group: the matches
\* are separators and are not put in the list.
SplitTags_NoCapture(s, p, q) ==
    IF q > Len(s) THEN <<SubSeq(s, p, Len(s))>>
    ELSE LET e == MatchAt(s, q)
         IN  IF e = 0 THEN SplitTags_NoCapture(s, p, q + 1)
             ELSE <<SubSeq(s, p, q - 1)>> \o SplitTags_NoCapture(s, e + 1, e + 1)

RECURSIVE SplitTags(_, _, _)
\* line.split(pattern): p is where the piece being collected starts, q where
\* the pattern is tried next. Each match closes the piece before it, which may
\* be empty, and is itself put in the list (the pattern has a capture group);
\* the rest of the line, which may be empty, is the last piece.
SplitTags(s, p, q) ==
    IF q > Len(s) THEN <<SubSeq(s, p, Len(s))>>
    ELSE LET e == MatchAt(s, q)
         IN  IF e = 0 THEN SplitTags(s, p, q + 1)
             ELSE <<SubSeq(s, p, q - 1), SubSeq(s, q, e)>> \o SplitTags(s, e + 1, e + 1)

\* ------------------------------------------------------------------------
\* Markup renderer: renderFormattedText
\* ------------------------------------------------------------------------

Segment(kind, text) == [kind |-> kind, text |-> text]

\* The element a part is rendered as, cutting one character too few at the end.
RenderPart_ShortSlice(part) ==
    IF StartsWith(part, OpenB) /\ EndsWith(part, CloseB)
    THEN Segment("Bold", Slice(part, 3, 3))
    ELSE IF StartsWith(part, OpenMark) /\ EndsWith(part, CloseMark)
    THEN Segment("Highlight", Slice(part, 6, 6))
    ELSE Segment("PlainText", part)

\* The element a part is rendered as, told by how the part starts alone.
RenderPart_NoEndCheck(part) ==
    IF StartsWith(part, OpenB)
    THEN Segment("Bold", Slice(part, 3, 4))
    ELSE IF StartsWith(part, OpenMark)
    THEN Segment("Highlight", Slice(part, 6, 7))
    ELSE Segment("PlainText", part)

\* The element a part is rendered as: <strong>, the highlighted <span>, or a
\* plain <span>.
RenderPart(part) ==
    IF StartsWith(part, OpenB) /\ EndsWith(part, CloseB)
    THEN Segment("Bold", Slice(part, 3, 4))
    ELSE IF StartsWith(part, OpenMark) /\ EndsWith(part, CloseMark)
    THEN Segment("Highlight", Slice(part, 6, 7))
    ELSE Segment("PlainText", part)

RenderLine(line) ==
    LET parts == SplitTags(line, 1, 1)
    IN  [j \in 1..Len(parts) |-> RenderPart(parts[j])]

\* What is returned for a text that is falsy, and before anything is returned.
Null == [isNull |-> TRUE, lines |-> <<>>]

\* renderFormattedText putting a line break after the last line too.
renderFormattedText_BreakAfterLast(text) ==
    IF text = <<>> THEN Null
    ELSE LET lines == Split(text, "\n")
         IN  [isNull |-> FALSE,
              lines |-> [k \in 1..Len(lines) |->
                           [segments |-> RenderLine(lines[k]), br |-> TRUE]]]

renderFormattedText(text) ==
    IF text = <<>> THEN Null
    ELSE LET lines == Split(text, "\n")
         IN  [isNull |-> FALSE,
              lines |-> [k \in 1..Len(lines) |->
                           [segments |-> RenderLine(lines[k]), br |-> k < Len(lines)]]]

RenderInit ==
    /\ PubInit
    /\ EditorInitial
    /\ slideBody = INITIAL_BODY
    /\ body \in Bodies
    /\ rendered = Null
    /\ rpc = "input"

\* The slide view renders the text.
Render ==
    /\ rpc = "input"
    /\ rendered' = renderFormattedText(Flatten(body))
    /\ rpc' = "rendered"
    /\ UNCHANGED body

RenderNext == Render /\ UNCHANGED exceptRender

RenderSpec == RenderInit /\ [][RenderNext]_vars

\* ------------------------------------------------------------------------
\* Editor: account, caption and handlePublish
\* ------------------------------------------------------------------------

\* What the caption field can hold: nothing, or a text.
EditorCaptions == {"", "caption A"}

\* A call of handlePublish past its await of publishCarouselToInstagram, or
\* ended by a throw: what its closure held is read no more. at is "timer"
\* while the timer it set is pending, "done" after; how tells what ended it.
Past(at, how) ==
    [pc |-> at, i |-> 0, blobs |-> <<>>, user |-> NoUser, caption |-> "",
     outcomes |-> <<>>, ended |-> how]

\* What publishCarouselToInstagram tells its sink in a run over n blobs.
ProgressMessages(n) ==
    {Status("Uploading slide", j, n) : j \in 1..n}
    \cup (IF n = 1 THEN {Status("Creating media container...", 0, 0)}
          ELSE {Status("Preparing slide", j, 0) : j \in 1..n}
               \cup {Status("Creating carousel object...", 0, 0)})
    \cup {Status("Finalizing publication...", 0, 0)}

\* The first of them, told before the workflow first awaits.
FirstProgress(n) ==
    IF n > 0 THEN Status("Uploading slide", 1, n)
    ELSE Status("Creating carousel object...", 0, 0)

\* handleConnectInstagram: the account loginToInstagram resolved with is kept.
\* The button is shown while no account is connected.
handleConnectInstagram(u) ==
    /\ instagramUser = NoUser
    /\ publishStatus = "idle"
    /\ instagramUser' = u
    /\ UNCHANGED <<editorCaption, publishStatus, statusMessage, runs>>

\* The Unlink button: setInstagramUser(null).
Unlink ==
    /\ instagramUser # NoUser
    /\ publishStatus = "idle"
    /\ instagramUser' = NoUser
    /\ UNCHANGED <<editorCaption, publishStatus, statusMessage, runs>>

\* The caption field: setCaption(e.target.value).
setCaption(c) ==
    /\ publishStatus = "idle"
    /\ c # editorCaption
    /\ editorCaption' = c
    /\ UNCHANGED <<instagramUser, publishStatus, statusMessage, runs>>

\* handlePublish up to its first await, the rendering of the first slide: it
\* returns at once without an account; its closure holds the account and the
\* caption of the moment.
handlePublish ==
    IF instagramUser = NoUser THEN UNCHANGED editorVars
    ELSE /\ publishStatus' = "rendering"
         /\ statusMessage' = Status("Rendering slide", 1, Len(INITIAL_SLIDES))
         /\ runs' = Append(runs, [pc |-> "rendering", i |-> 0, blobs |-> <<>>,
                                  user |-> instagramUser, caption |-> editorCaption,
                                  outcomes |-> <<>>, ended |-> ""])
         /\ UNCHANGED <<instagramUser, editorCaption>>

\* The Publish button is activated: it is disabled without an account and
\* with nothing else; while publishStatus is not idle the overlay lies over
\* it, which keeps the pointer from it and not the keyboard.
PublishButton(via) ==
    /\ instagramUser # NoUser
    /\ via = "pointer" => publishStatus = "idle"
    /\ Len(runs) < MaxPublishes
    /\ handlePublish

\* toBlobSettles aborting the run when a slide yields no blob.
toBlobSettles_NullAborts(h, outcome) ==
    /\ runs[h].pc = "rendering"
    /\ IF outcome \in {"throw", "null"}
       THEN /\ publishStatus' = "error"
            /\ statusMessage' = Status("An error occurred during publication.", 0, 0)
            /\ runs' = [runs EXCEPT ![h] = Past("timer", outcome)]
       ELSE LET blobs == Append(runs[h].blobs, INITIAL_SLIDES[runs[h].i + 1])
                seen == Append(runs[h].outcomes, outcome)
                next == runs[h].i + 1
            IN  IF next < Len(INITIAL_SLIDES)
                THEN /\ statusMessage' = Status("Rendering slide", next + 1, Len(INITIAL_SLIDES))
                     /\ runs' = [runs EXCEPT ![h].i = next, ![h].blobs = blobs,
                                             ![h].outcomes = seen]
                     /\ UNCHANGED publishStatus
                ELSE /\ publishStatus' = "uploading"
                     /\ statusMessage' = FirstProgress(Len(blobs))
                     /\ runs' = [runs EXCEPT ![h].i = next, ![h].blobs = blobs,
                                             ![h].outcomes = seen, ![h].pc = "uploading"]
    /\ UNCHANGED <<instagramUser, editorCaption>>

\* toBlob of the next slide settles, with a blob, with null (as does a slide
\* without an export element) or by throwing; after the last slide
\* publishCarouselToInstagram is called and runs to its first await. outcomes
\* keeps, for the slides gone through, how each came out.
toBlobSettles(h, outcome) ==
    /\ runs[h].pc = "rendering"
    /\ IF outcome = "throw"
       THEN /\ publishStatus' = "error"
            /\ statusMessage' = Status("An error occurred during publication.", 0, 0)
            /\ runs' = [runs EXCEPT ![h] = Past("timer", "throw")]
       ELSE LET blobs == IF outcome = "blob"
                         THEN Append(runs[h].blobs, INITIAL_SLIDES[runs[h].i + 1])
                         ELSE runs[h].blobs
                seen == Append(runs[h].outcomes, outcome)
                next == runs[h].i + 1
            IN  IF next < Len(INITIAL_SLIDES)
                THEN /\ statusMessage' = Status("Rendering slide", next + 1, Len(INITIAL_SLIDES))
                     /\ runs' = [runs EXCEPT ![h].i = next, ![h].blobs = blobs,
                                             ![h].outcomes = seen]
                     /\ UNCHANGED publishStatus
                ELSE /\ publishStatus' = "uploading"
                     /\ statusMessage' = FirstProgress(Len(blobs))
                     /\ runs' = [runs EXCEPT ![h].i = next, ![h].blobs = blobs,
                                             ![h].outcomes = seen, ![h].pc = "uploading"]
    /\ UNCHANGED <<instagramUser, editorCaption>>

\* The sink handlePublish passes: setStatusMessage(msg).
PublishProgress(h, msg) ==
    /\ runs[h].pc = "uploading"
    /\ msg \in ProgressMessages(Len(runs[h].blobs))
    /\ msg # statusMessage
    /\ statusMessage' = msg
    /\ UNCHANGED <<instagramUser, editorCaption, publishStatus, runs>>

\* publishCarouselToInstagram settles: it resolves, or, with an account that
\* is not the demo account, rejects. The timer of 4000 ms is set.
PublishSettles(h, ok) ==
    /\ runs[h].pc = "uploading"
    /\ ~ok => runs[h].user.id # MOCK_USER_ID
    /\ publishStatus' = IF ok THEN "success" ELSE "error"
    /\ statusMessage' = IF ok THEN Status("Your carousel is now live!", 0, 0)
                        ELSE Status("An error occurred during publication.", 0, 0)
    /\ runs' = [runs EXCEPT ![h] = Past("timer", IF ok THEN "resolved" ELSE "rejected")]
    /\ UNCHANGED <<instagramUser, editorCaption>>

\* The callback of setTimeout.
TimerFires(h) ==
    /\ runs[h].pc = "timer"
    /\ publishStatus' = "idle"
    /\ statusMessage' = NoMessage
    /\ runs' = [runs EXCEPT ![h] = Past("done", runs[h].ended)]
    /\ UNCHANGED <<instagramUser, editorCaption>>

EditorNext ==
    \/ \E u \in Users : handleConnectInstagram(u) /\ UNCHANGED exceptEditor
    \/ Unlink /\ UNCHANGED exceptEditor
    \/ \E c \in EditorCaptions : setCaption(c) /\ UNCHANGED exceptEditor
    \/ \E via \in {"pointer", "keyboard"} :
         PublishButton(via) /\ UNCHANGED exceptEditor
    \/ \E h \in 1..Len(runs), outcome \in {"blob", "null", "throw"} :
         toBlobSettles(h, outcome) /\ UNCHANGED exceptEditor
    \/ \E h \in 1..Len(runs), msg \in ProgressMessages(Len(INITIAL_SLIDES)) :
         PublishProgress(h, msg) /\ UNCHANGED exceptEditor
    \/ \E h \in 1..Len(runs), ok \in BOOLEAN :
         PublishSettles(h, ok) /\ UNCHANGED exceptEditor
    \/ \E h \in 1..Len(runs) : TimerFires(h) /\ UNCHANGED exceptEditor

EditorSpec == Init /\ [][EditorNext]_vars

\* A timer that was set fires.
TimerStep == (\E h \in 1..Len(runs) : TimerFires(h)) /\ UNCHANGED exceptEditor

\* The editor with its scheduling: timers fire; nothing obliges toBlob or the
\* workflow to settle, nor the user to act.
EditorFairSpec == Init /\ [][EditorNext]_vars /\ WF_vars(TimerStep)

\* ------------------------------------------------------------------------
\* Editor: the slide list and its selection
\* ------------------------------------------------------------------------

Ids(list) == {list[k].id : k \in 1..Len(list)}

\* slides.find(s => s.id === selectedSlideId) || slides[0]
selectedSlide ==
    IF selectedSlideId \in Ids(slides)
    THEN slides[CHOOSE k \in 1..Len(slides) : slides[k].id = selectedSlideId]
    ELSE slides[1]

\* The list updateSlide sets: prev.map(s => s.id === id ? {...s, ...updates} : s)
updateSlide(id) ==
    [k \in 1..Len(slides) |->
        IF slides[k].id = id THEN [slides[k] EXCEPT !.edits = @ + 1] ELSE slides[k]]

\* The editor is rendered: with no slide selectedSlide is undefined and the
\* render of the editor tab, which reads its fields, throws.
Rendering == slides # <<>>

addSlide ==
    /\ Rendering
    /\ nextId <= MaxSlideId
    /\ slides' = Append(slides, Slide(nextId))
    /\ selectedSlideId' = nextId
    /\ nextId' = nextId + 1
    /\ lastOp' = [op |-> "addSlide", applied |-> FALSE]

\* removeSlide(id): slides[0] is the first slide of the list before the removal.
removeSlide(id) ==
    /\ Rendering
    /\ IF Len(slides) > 1
       THEN /\ slides' = SelectSeq(slides, LAMBDA sl : sl.id # id)
            /\ selectedSlideId' = IF selectedSlideId = id THEN slides[1].id
                                  ELSE selectedSlideId
       ELSE UNCHANGED <<slides, selectedSlideId>>
    /\ lastOp' = [op |-> "removeSlide", applied |-> Len(slides) > 1]
    /\ UNCHANGED nextId

\* A slide of the strip is clicked: setSelectedSlideId(s.id).
selectSlide(id) ==
    /\ Rendering
    /\ id \in Ids(slides)
    /\ id # selectedSlideId
    /\ selectedSlideId' = id
    /\ lastOp' = [op |-> "selectSlide", applied |-> FALSE]
    /\ UNCHANGED <<slides, nextId>>

\* An edit addressed to selectedSlideId: handleFormatText, handleInsertEmoji,
\* the background upload and the generated background.
editSelectedId ==
    /\ Rendering
    /\ selectedSlide.edits < MaxEdits
    /\ slides' = updateSlide(selectedSlideId)
    /\ lastOp' = [op |-> "editSelectedId", applied |-> updateSlide(selectedSlideId) # slides]
    /\ UNCHANGED <<selectedSlideId, nextId>>

\* An edit addressed to selectedSlide.id: the type buttons, the title, body
\* and background fields.
editShown ==
    /\ Rendering
    /\ selectedSlide.edits < MaxEdits
    /\ slides' = updateSlide(selectedSlide.id)
    /\ lastOp' = [op |-> "editShown", applied |-> updateSlide(selectedSlide.id) # slides]
    /\ UNCHANGED <<selectedSlideId, nextId>>

\* handleScriptGenerated(newSlides), newSlides made of a script of n items,
\* which the generator may return empty; their ids are new.
handleScriptGenerated(n) ==
    /\ Rendering
    /\ nextId + n - 1 <= MaxSlideId
    /\ slides' = [k \in 1..n |-> Slide(nextId + k - 1)]
    /\ selectedSlideId' = IF n > 0 THEN nextId ELSE selectedSlideId
    /\ nextId' = nextId + n
    /\ lastOp' = [op |-> "handleScriptGenerated", applied |-> FALSE]

SlideNext ==
    \/ addSlide /\ UNCHANGED exceptSlides
    \/ removeSlide(selectedSlide.id) /\ UNCHANGED exceptSlides
    \/ \E id \in 1..MaxSlideId : selectSlide(id) /\ UNCHANGED exceptSlides
    \/ editSelectedId /\ UNCHANGED exceptSlides
    \/ editShown /\ UNCHANGED exceptSlides
    \/ \E n \in 0..MaxScript : handleScriptGenerated(n) /\ UNCHANGED exceptSlides

SlideSpec == Init /\ [][SlideNext]_vars

\* ------------------------------------------------------------------------
\* Login: loginToInstagram, called by handleConnectInstagram
\* ------------------------------------------------------------------------

\* The account returned where there is no window.
SSRUser == [id |-> MOCK_USER_ID, accessToken |-> "mock_token"]

\* What the call can find: an app id typed in the editor or none, one in the
\* build's environment or none, the location of the page, window.FB there
\* already or not.
AppIds == {"", "1234567890"}
Protocols == {"http:", "https:"}
Hostnames == {"localhost", "127.0.0.1", "example.com"}

\* What FB.login hands over, and the id the Graph API gives for the account.
AccessTokens == {"EAAG_token", "mock_token_123"}
AccountIds == {"17841400000000000", MOCK_USER_ID}

\* appId || process.env.REACT_APP_FB_APP_ID
finalAppId(e) == IF e.appId # "" THEN e.appId ELSE e.envAppId

isSecure(e) == e.protocol = "https:"
isLocal(e) == e.hostname = "localhost" \/ e.hostname = "127.0.0.1"

\* canUseRealAuth without the look at the location.
canUseRealAuth_AnyLocation(e) == finalAppId(e) # ""

\* finalAppId && (isSecure || isLocal)
canUseRealAuth(e) == finalAppId(e) # "" /\ (isSecure(e) \/ isLocal(e))

\* The catch of loginToInstagram: the failure is logged and the call goes on
\* to the simulated login.
FallBack(why) ==
    /\ failure' = why
    /\ lpc' = "mockWait"

\* loginToInstagram(appId) up to its first await. initFacebookSdk resolves at
\* once where window.FB is there, and else sets fbAsyncInit and loads the SDK.
loginToInstagram(e) ==
    /\ lpc = "idle"
    /\ env' = e
    /\ IF ~e.hasWindow
       THEN /\ lpc' = "resolved"
            /\ loginResult' = SSRUser
            /\ UNCHANGED sdk
       ELSE IF canUseRealAuth(e)
       THEN /\ lpc' = "sdkAwait"
            /\ sdk' = IF e.hasFB THEN "present" ELSE "loading"
            /\ UNCHANGED loginResult
       ELSE /\ lpc' = "mockWait"
            /\ UNCHANGED <<sdk, loginResult>>
    /\ UNCHANGED <<fbLogin, token, pagesLeft, failure>>

\* initFacebookSdk resolves (fbAsyncInit has called FB.init where the SDK was
\* loaded) and FB.login is called.
SdkReady ==
    /\ lpc = "sdkAwait"
    /\ sdk' = IF sdk = "loading" THEN "initialised" ELSE sdk
    /\ fbLogin' = TRUE
    /\ lpc' = "loginAwait"
    /\ UNCHANGED <<env, token, pagesLeft, failure, loginResult>>

\* The callback of FB.login: with an authResponse fetchInstagramAccount asks
\* for the Pages, without one the promise is rejected.
LoginResponse(authorised, t) ==
    /\ lpc = "loginAwait"
    /\ IF authorised
       THEN /\ token' = t
            /\ lpc' = "pagesAwait"
            /\ UNCHANGED failure
       ELSE /\ FallBack("cancelled")
            /\ UNCHANGED token
    /\ UNCHANGED <<env, sdk, fbLogin, pagesLeft, loginResult>>

\* 1. the Pages: n of them, an error payload (no data), or a failed request.
PagesResponse(status, n) ==
    /\ lpc = "pagesAwait"
    /\ IF status = "ok" /\ n > 0
       THEN /\ pagesLeft' = n
            /\ lpc' = "pageAwait"
            /\ UNCHANGED failure
       ELSE /\ FallBack(IF status = "network" THEN "lookup" ELSE "noPages")
            /\ UNCHANGED pagesLeft
    /\ UNCHANGED <<env, sdk, fbLogin, token, loginResult>>

\* 2. one Page of the loop: it has an Instagram business account, or it has
\* none (an error payload has none), or the request failed.
PageResponse(status, linked) ==
    /\ lpc = "pageAwait"
    /\ IF status = "network"
       THEN /\ FallBack("lookup")
            /\ UNCHANGED pagesLeft
       ELSE IF status = "ok" /\ linked
       THEN /\ lpc' = "detailsAwait"
            /\ UNCHANGED <<pagesLeft, failure>>
       ELSE IF pagesLeft > 1
       THEN /\ pagesLeft' = pagesLeft - 1
            /\ UNCHANGED <<lpc, failure>>
       ELSE /\ pagesLeft' = 0
            /\ FallBack("noInstagram")
    /\ UNCHANGED <<env, sdk, fbLogin, token, loginResult>>

\* 3. the details of the account: what came back is not looked at, its id
\* (undefined in an error payload) is the id of the account returned.
DetailsResponse(status, id) ==
    /\ lpc = "detailsAwait"
    /\ IF status = "network"
       THEN /\ FallBack("lookup")
            /\ UNCHANGED loginResult
       ELSE /\ loginResult' = [id |-> IF status = "ok" THEN id ELSE "undefined",
                               accessToken |-> token]
            /\ failure' = IF status = "ok" THEN failure ELSE "lookup"
            /\ lpc' = "resolved"
    /\ UNCHANGED <<env, sdk, fbLogin, token, pagesLeft>>

\* The simulated login: the timer of 800 ms, then the demo account.
MockLogin ==
    /\ lpc = "mockWait"
    /\ loginResult' = DemoUser
    /\ lpc' = "resolved"
    /\ UNCHANGED <<env, sdk, fbLogin, token, pagesLeft, failure>>

\* handleConnectInstagram after its await: setInstagramUser(user).
ConnectSettles ==
    /\ lpc = "resolved"
    /\ instagramUser' = loginResult
    /\ lpc' = "connected"
    /\ UNCHANGED <<env, sdk, fbLogin, token, pagesLeft, failure, loginResult>>
    /\ UNCHANGED <<editorCaption, publishStatus, statusMessage, runs>>
    /\ UNCHANGED <<pubVars, renderVars, slideVars, formatVars>>

\* The three steps of a publish by the account connected, each up to its first
\* await.
PublishStep ==
    /\ lpc = "connected"
    /\ Len(calls) < 3
    /\ CASE Len(calls) = 0 ->
              createItemContainer(instagramUser.id, UploadedUrl(1),
                                  instagramUser.accessToken, editorCaption, TRUE)
         [] Len(calls) = 1 ->
              createCarouselContainer(instagramUser.id, <<>>,
                                      instagramUser.accessToken, editorCaption)
         [] Len(calls) = 2 ->
              publishMedia(instagramUser.id, NoId, instagramUser.accessToken)
    /\ UNCHANGED <<pc, user, slideBlobs, caption, onProgress, i, imageUrls,
                   creationId, itemContainers, result, error, settled, progress,
                   uploads, responses, lastRun>>
    /\ UNCHANGED <<renderVars, editorVars, slideVars, loginVars, formatVars>>

LoginNext ==
    \/ \E w \in BOOLEAN, a \in AppIds, b \in AppIds, p \in Protocols,
          h \in Hostnames, fb \in BOOLEAN :
         /\ loginToInstagram([hasWindow |-> w, appId |-> a, envAppId |-> b,
                              protocol |-> p, hostname |-> h, hasFB |-> fb])
         /\ UNCHANGED exceptLogin
    \/ SdkReady /\ UNCHANGED exceptLogin
    \/ \E authorised \in BOOLEAN, t \in AccessTokens :
         LoginResponse(authorised, t) /\ UNCHANGED exceptLogin
    \/ \E status \in {"ok", "error", "network"}, n \in 0..MaxPages :
         PagesResponse(status, n) /\ UNCHANGED exceptLogin
    \/ \E status \in {"ok", "error", "network"}, linked \in BOOLEAN :
         PageResponse(status, linked) /\ UNCHANGED exceptLogin
    \/ \E status \in {"ok", "error", "network"}, id \in AccountIds :
         DetailsResponse(status, id) /\ UNCHANGED exceptLogin
    \/ MockLogin /\ UNCHANGED exceptLogin
    \/ ConnectSettles
    \/ PublishStep

LoginSpec == Init /\ [][LoginNext]_vars

\* ------------------------------------------------------------------------
\* Editor: the format buttons of the body field
\* ------------------------------------------------------------------------

\* The bodies a button is pressed on: the initial one, or typed in or
\* generated.
FormatBodies ==
    {INITIAL_BODY}
    \cup {Flatten(toks) : toks \in UNION {[1..n -> Alphabet] : n \in 0..MaxFormatTokens}}

\* `<${tag}>` and `</${tag}>`
openTag(tag) == IF tag = "b" THEN OpenB ELSE OpenMark
closeTag(tag) == IF tag = "b" THEN CloseB ELSE CloseMark

\* text.substring(from, to), both counted from 0.
Substring(text, from, to) == SubSeq(text, from + 1, to)

\* handleFormatText(tag) with the selection of the textarea from start to end:
\* nothing with an empty selection, else the selection between the two tags.
handleFormatText(tag, start, end) ==
    /\ formatted.n < MaxFormats
    /\ start # end
    /\ LET text == slideBody
           before == Substring(text, 0, start)
           selection == Substring(text, start, end)
           after == Substring(text, end, Len(text))
           newText == before \o openTag(tag) \o selection \o closeTag(tag) \o after
       IN  /\ slideBody' = newText
           /\ formatted' = [n |-> formatted.n + 1, text |-> text, start |-> start,
                            end |-> end, tag |-> tag]

FormatInit ==
    /\ PubInit
    /\ RenderIdle
    /\ EditorInitial
    /\ slideBody \in FormatBodies

FormatNext ==
    \E tag \in {"b", "mark"}, start \in 0..Len(slideBody), end \in 0..Len(slideBody) :
        /\ start <= end
        /\ handleFormatText(tag, start, end)
        /\ UNCHANGED exceptFormat

FormatSpec == FormatInit /\ [][FormatNext]_vars

\* ------------------------------------------------------------------------
\* Publishing workflow: properties
\* ------------------------------------------------------------------------

N == Len(slideBlobs)

IsMock == user.id = MOCK_USER_ID

\* The operation the k-th call of a run with n > 1 assets is to be.
CarouselOp(k, n) ==
    IF k <= n THEN "createItemContainer"
    ELSE IF k = n + 1 THEN "createCarouselContainer"
    ELSE "publishMedia"

\* C1: in a run with N > 1 assets the container and publish calls are N
\* createItemContainer calls, then one createCarouselContainer call, then one
\* publishMedia call, and nothing else: every call made so far is the one this
\* order has at its place, and the run that resolved has made all N + 2.
C1_CarouselCallOrder ==
    N > 1 =>
        /\ Len(calls) <= N + 2
        /\ \A k \in 1..Len(calls) : calls[k].op = CarouselOp(k, N)
        /\ pc = "resolved" => Len(calls) = N + 2

C1_Witness ==
    /\ pc = "resolved"
    /\ N = 3
    /\ ~IsMock
    /\ Len(calls) = 5

\* C2: the children passed to createCarouselContainer are, place by place, the
\* ids the item-container calls returned, the i-th of which was made with the
\* url the upload of the i-th blob resolved with; there are N children.
C2_OrderPreserved ==
    \A k \in 1..Len(calls) :
        (N > 1 /\ calls[k].op = "createCarouselContainer") =>
            /\ Len(calls[k].url.children) = N
            /\ Len(uploads) = N
            /\ \A j \in 1..N :
                 /\ uploads[j].blob = slideBlobs[j]
                 /\ calls[j].op = "createItemContainer"
                 /\ calls[j].url.image_url = <<uploads[j].url>>
                 /\ responses[j].status = "ok"
                 /\ calls[k].url.children[j] = responses[j].id

C2_Witness ==
    /\ N = 3
    /\ Len(calls) = 4
    /\ calls[4].op = "createCarouselContainer"
    /\ calls[4].url.children = <<responses[1].id, responses[2].id, responses[3].id>>
    /\ responses[1].id # responses[2].id
    /\ slideBlobs = <<1, 2, 3>>

\* C3: in a run with one asset there is exactly one createItemContainer call
\* before publishMedia and never a createCarouselContainer call.
C3_SingleImagePath ==
    N = 1 =>
        /\ \A k \in 1..Len(calls) : calls[k].op # "createCarouselContainer"
        /\ Cardinality({k \in 1..Len(calls) : calls[k].op = "createItemContainer"}) <= 1
        /\ \A k \in 1..Len(calls) :
             calls[k].op = "publishMedia" =>
                 /\ k = 2
                 /\ calls[1].op = "createItemContainer"

C3_Witness ==
    /\ N = 1
    /\ pc = "resolved"
    /\ Len(calls) = 2
    /\ calls[2].op = "publishMedia"

\* C4: a remote call that returns an error payload or fails on the network is
\* the last call of its run, and the run is rejected, once, with the message of
\* that failure; a rejected run has such a call.
C4_AbortOnFirstFailure ==
    /\ \A k \in 1..Len(responses) :
         responses[k].status # "ok" =>
             /\ k = Len(calls)
             /\ pc = "rejected"
             /\ error.message = responses[k].message
             /\ settled = 1
    /\ pc = "rejected" =>
         /\ Len(responses) = Len(calls)
         /\ Len(responses) >= 1
         /\ responses[Len(responses)].status # "ok"
    /\ settled <= 1

C4_Witness ==
    /\ pc = "rejected"
    /\ N = 3
    /\ Len(calls) = 2
    /\ responses[2].status = "network"
    /\ error.message = "Failed to fetch"

\* C5: for the account MOCK_USER_ID no network request is made, and a run that
\* resolved has told the sink what the run before it told the sink, when that
\* run resolved for the same number of assets and the other kind of account.
C5_SimulationEquivalent ==
    /\ IsMock => fetches = <<>>
    /\ lastRun.mock => lastRun.fetches = 0
    /\ (pc = "resolved" /\ lastRun.n = N /\ lastRun.sink = onProgress
          /\ lastRun.mock # IsMock)
       => lastRun.progress = progress

C5_Witness ==
    /\ pc = "resolved"
    /\ IsMock
    /\ onProgress
    /\ N = 3
    /\ lastRun.n = 3
    /\ lastRun.sink
    /\ ~lastRun.mock
    /\ lastRun.fetches = 5
    /\ Len(progress) = 8

\* The step a notification belongs to.
StepOf(status) ==
    IF status.text = "Uploading slide" THEN 1
    ELSE IF status.text = "Finalizing publication..." THEN 3
    ELSE 2

\* C6: the sink is told of the steps in order (uploads, then container
\* creation, then finalize), the slide number growing within the uploads and
\* within the item containers, in simulated, real and failing runs alike.
C6_ProgressInOrder ==
    \A a, b \in 1..Len(progress) :
        a < b =>
            /\ StepOf(progress[a]) <= StepOf(progress[b])
            /\ (progress[a].text = progress[b].text
                  /\ progress[a].text \in {"Uploading slide", "Preparing slide"})
               => progress[a].slide < progress[b].slide

C6_Witness ==
    /\ pc = "rejected"
    /\ ~IsMock
    /\ N = 3
    /\ Len(progress) = 6
    /\ progress[6].text = "Preparing slide"
    /\ progress[6].slide = 3

\* C7: given an empty asset list the run makes no container and no publish
\* call and does not end in success.
C7_EmptyListFails ==
    (N = 0 /\ pc # "idle") =>
        /\ calls = <<>>
        /\ pc # "resolved"

\* ------------------------------------------------------------------------
\* Markup renderer: properties
\* ------------------------------------------------------------------------

\* The lines of the text, by the places of its newlines.
Breaks == {p \in 1..Len(body) : body[p] = Newline}

NumLines == Cardinality(Breaks) + 1

\* The place of the k-th newline; 0 before the first line, past the end after
\* the last.
BreakAt(k) ==
    IF k = 0 THEN 0
    ELSE IF k > Cardinality(Breaks) THEN Len(body) + 1
    ELSE CHOOSE p \in Breaks : Cardinality({r \in Breaks : r < p}) = k - 1

\* The pieces of the k-th line.
LineToks(k) == SubSeq(body, BreakAt(k - 1) + 1, BreakAt(k) - 1)

\* A line with an opening tag and, after it, its closing tag.
HasSpan(lt) ==
    \E p, q \in 1..Len(lt) :
        /\ p < q
        /\ \/ lt[p] = OpenB /\ lt[q] = CloseB
           \/ lt[p] = OpenMark /\ lt[q] = CloseMark

NoSpans == \A k \in 1..NumLines : ~HasSpan(LineToks(k))

\* Each line is rendered as one plain-text segment holding the line.
OnePlainSegmentPerLine ==
    /\ ~rendered.isNull
    /\ Len(rendered.lines) = NumLines
    /\ \A k \in 1..NumLines :
         rendered.lines[k].segments = <<Segment("PlainText", Flatten(LineToks(k)))>>

\* C8, as stated: every text without a span, the empty text too, is rendered
\* as one plain-text segment per line, equal to the line.
C8_Original == (rpc = "rendered" /\ NoSpans) => OnePlainSegmentPerLine

\* C8, amended: every text without a span that is not empty is rendered as one
\* plain-text segment per line, equal to the line; the empty text is rendered
\* as null.
C8_PlainLines ==
    rpc = "rendered" =>
        /\ (NoSpans /\ body # <<>>) => OnePlainSegmentPerLine
        /\ body = <<>> => rendered.isNull

C8_Witness ==
    /\ rpc = "rendered"
    /\ body = <<Letter, Newline, Newline, OpenB>>
    /\ Len(rendered.lines) = 3
    /\ rendered.lines[2].segments = <<Segment("PlainText", <<>>)>>
    /\ rendered.lines[3].segments = <<Segment("PlainText", OpenB)>>

IsSpanSegment(seg) == seg.kind \in {"Bold", "Highlight"}

\* C9: a line with spans is rendered as its span segments and the text runs
\* between them that are not empty: none of its segments is an empty
\* plain-text segment.
C9_NoEmptyPlainText ==
    rpc = "rendered" =>
        \A k \in 1..Len(rendered.lines) :
            LET segs == rendered.lines[k].segments
            IN  (\E j \in 1..Len(segs) : IsSpanSegment(segs[j]))
                => \A j \in 1..Len(segs) : segs[j] # Segment("PlainText", <<>>)

\* The closing tag of the span a line opens at p: the first closing tag of the
\* kind after p, when the text between the two is on one line (holds no line
\* terminator); 0 when p opens no span.
SpanEnd(lt, p) ==
    LET close == IF lt[p] = OpenB THEN CloseB ELSE CloseMark
        ends == {q \in p + 1..Len(lt) : lt[q] = close}
        q == CHOOSE e \in ends : \A f \in ends : e <= f
    IN  IF lt[p] \notin {OpenB, OpenMark} \/ ends = {} THEN 0
        ELSE IF \E r \in p + 1..q - 1 : lt[r] \in {Newline, CarriageReturn} THEN 0
        ELSE q

RECURSIVE WellFormedSpans(_, _)
\* The well-formed spans of a line from p on, left to right, none inside or
\* across another.
WellFormedSpans(lt, p) ==
    IF p > Len(lt) THEN {}
    ELSE IF SpanEnd(lt, p) = 0 THEN WellFormedSpans(lt, p + 1)
    ELSE {[from |-> p, to |-> SpanEnd(lt, p)]} \cup WellFormedSpans(lt, SpanEnd(lt, p) + 1)

\* The characters of the text a segment was made from.
RawLen(seg) ==
    Len(seg.text)
    + (IF seg.kind = "Bold" THEN Len(OpenB) + Len(CloseB)
       ELSE IF seg.kind = "Highlight" THEN Len(OpenMark) + Len(CloseMark)
       ELSE 0)

RECURSIVE StartOf(_, _)
\* Where in its line the text of the j-th segment starts.
StartOf(segs, j) == IF j = 1 THEN 1 ELSE StartOf(segs, j - 1) + RawLen(segs[j - 1])

\* C10: every well-formed span of a line is rendered, at its place, as a
\* segment of the kind of its tag (Bold for <b>, Highlight for <mark>) whose
\* text is what stands between the two tags.
C10_SpanSegments ==
    rpc = "rendered" =>
        \A k \in 1..NumLines :
            \A sp \in WellFormedSpans(LineToks(k), 1) :
                LET lt == LineToks(k)
                    segs == rendered.lines[k].segments
                IN  \E j \in 1..Len(segs) :
                        /\ StartOf(segs, j) = 1 + Len(Flatten(SubSeq(lt, 1, sp.from - 1)))
                        /\ segs[j] = Segment(IF lt[sp.from] = OpenB THEN "Bold" ELSE "Highlight",
                                             Flatten(SubSeq(lt, sp.from + 1, sp.to - 1)))

C10_Witness ==
    /\ rpc = "rendered"
    /\ body = <<Letter, OpenMark, Letter, CloseMark>>
    /\ WellFormedSpans(LineToks(1), 1) = {[from |-> 2, to |-> 4]}
    /\ rendered.lines[1].segments[2] = Segment("Highlight", Letter)

\* The text a segment was made from: its text, inside its tags for a span.
RawText(seg) ==
    IF seg.kind = "Bold" THEN OpenB \o seg.text \o CloseB
    ELSE IF seg.kind = "Highlight" THEN OpenMark \o seg.text \o CloseMark
    ELSE seg.text

RECURSIVE RawLine(_)
\* The text a line of segments was made from.
RawLine(segs) == IF segs = <<>> THEN <<>> ELSE RawText(Head(segs)) \o RawLine(Tail(segs))

\* The lines rendered are the lines of the text between its newlines, in
\* order, with a line break after each but the last.
SplitOnNewlines ==
    /\ ~rendered.isNull
    /\ Len(rendered.lines) = NumLines
    /\ \A k \in 1..NumLines :
         /\ RawLine(rendered.lines[k].segments) = Flatten(LineToks(k))
         /\ rendered.lines[k].br = (k < NumLines)

\* C11, as stated: a text with k newlines is rendered as k + 1 lines, in
\* order, split before any tag is matched, with a line break between
\* consecutive lines and none after the last.
C11_Original == rpc = "rendered" => SplitOnNewlines

\* C11, amended: the same of every text that is not empty; the empty text,
\* which has no newline, is rendered as null and not as one line.
C11_Lines ==
    rpc = "rendered" =>
        /\ body # <<>> => SplitOnNewlines
        /\ body = <<>> => rendered.isNull

C11_Witness ==
    /\ rpc = "rendered"
    /\ body = <<OpenB, Letter, Newline, CloseB>>
    /\ Len(rendered.lines) = 2
    /\ rendered.lines[1] = [segments |-> <<Segment("PlainText", OpenB \o Letter)>>, br |-> TRUE]
    /\ rendered.lines[2] = [segments |-> <<Segment("PlainText", CloseB)>>, br |-> FALSE]

\* An opening tag at p with no closing tag of its kind after it in the line.
Unclosed(lt, p) ==
    /\ lt[p] \in {OpenB, OpenMark}
    /\ ~\E q \in p + 1..Len(lt) :
           lt[q] = (IF lt[p] = OpenB THEN CloseB ELSE CloseMark)

\* The place p lies between an opening tag and a closing tag of one kind.
Enclosed(lt, p) ==
    \E a \in 1..p - 1, c \in p + 1..Len(lt) :
        \/ lt[a] = OpenB /\ lt[c] = CloseB
        \/ lt[a] = OpenMark /\ lt[c] = CloseMark

\* Where in its line the p-th piece starts.
CharStart(lt, p) == 1 + Len(Flatten(SubSeq(lt, 1, p - 1)))

InFlightUploads == {j \in 1..Len(uploads) : uploads[j].url = NoUrl}

\* C13: uploads and container calls run one at a time and in asset order: at
\* most one upload is in flight, the one started last, and it is the upload of
\* the next blob; at most one call is awaited; no call is made before every
\* blob was uploaded; the k-th item call is made for the k-th url.
C13_Sequential ==
    /\ InFlightUploads \subseteq {Len(uploads)}
    /\ Len(uploads) <= N
    /\ \A j \in 1..Len(uploads) : uploads[j].blob = slideBlobs[j]
    /\ Len(responses) <= Len(calls)
    /\ Len(calls) <= Len(responses) + 1
    /\ calls # <<>> => (Len(uploads) = N /\ InFlightUploads = {})
    /\ \A k \in 1..Len(calls) :
         calls[k].op = "createItemContainer" => calls[k].url.image_url = <<uploads[k].url>>

C13_Witness ==
    /\ pc = "itemAwait"
    /\ N = 3
    /\ Len(calls) = 2
    /\ Len(responses) = 1
    /\ InFlightUploads = {}

\* C14: the creation id publishMedia is called with is the id the call just
\* before it returned: the one createItemContainer call of a run with one
\* asset, the createCarouselContainer call otherwise; it is no id of an item
\* container of a run with several assets and never the empty id.
C14_PublishesLastContainer ==
    \A k \in 1..Len(calls) :
        calls[k].op = "publishMedia" =>
            /\ k >= 2
            /\ responses[k - 1].status = "ok"
            /\ calls[k].url.creation_id = <<responses[k - 1].id>>
            /\ responses[k - 1].id # NoId
            /\ calls[k - 1].op = (IF N = 1 THEN "createItemContainer"
                                  ELSE "createCarouselContainer")
            /\ N # 1 => \A j \in 1..k - 2 : calls[k].url.creation_id # <<responses[j].id>>

C14_Witness ==
    /\ pc = "resolved"
    /\ N = 3
    /\ IsMock
    /\ calls[5].op = "publishMedia"
    /\ calls[5].url.creation_id = <<[kind |-> "carousel_container", n |-> 4]>>

\* The calls of the run whose request carries a caption.
WithCaption == {k \in 1..Len(calls) : calls[k].url.caption # <<>>}

\* C15: one container of a run carries the caption: with one asset the single
\* container, created as no carousel item; otherwise every item container is
\* created with the carousel-item flag and no caption parameter, and the
\* carousel container alone carries the caption.
C15_CaptionOnce ==
    /\ Cardinality(WithCaption) <= 1
    /\ pc = "resolved" => Cardinality(WithCaption) = 1
    /\ \A k \in 1..Len(calls) :
         /\ (calls[k].op = "createItemContainer" /\ N = 1) =>
                /\ ~calls[k].url.is_carousel_item
                /\ calls[k].url.caption = <<caption>>
         /\ (calls[k].op = "createItemContainer" /\ N # 1) =>
                /\ calls[k].url.is_carousel_item
                /\ calls[k].url.caption = <<>>
         /\ calls[k].op = "createCarouselContainer" => calls[k].url.caption = <<caption>>
         /\ calls[k].op = "publishMedia" => calls[k].url.caption = <<>>

C15_Witness ==
    /\ pc = "resolved"
    /\ N = 2
    /\ ~IsMock
    /\ caption = "caption B"
    /\ WithCaption = {3}
    /\ fetches[3].caption = <<"caption B">>
    /\ fetches[1].is_carousel_item

\* The operations of the calls of the run, in order.
Ops == [k \in 1..Len(calls) |-> calls[k].op]

\* C16: a sink is told of each step before the step starts: of the upload of
\* slide j before that upload, of container creation after the uploads and
\* before the first container call, of the finalize step before publishMedia;
\* and a run without a sink makes the calls a run with one makes, in order.
C16_AnnouncedBeforeStart ==
    /\ onProgress =>
         /\ \A j \in 1..Len(uploads) :
              /\ Len(progress) >= j
              /\ progress[j] = Status("Uploading slide", j, N)
         /\ calls # <<>> =>
              /\ Len(progress) >= N + 1
              /\ StepOf(progress[N + 1]) = 2
         /\ \A k \in 1..Len(calls) :
              calls[k].op = "publishMedia" =>
                  progress[Len(progress)] = Status("Finalizing publication...", 0, 0)
    /\ (pc = "resolved" /\ lastRun.n = N /\ lastRun.sink # onProgress) => lastRun.ops = Ops

C16_Witness ==
    /\ pc = "resolved"
    /\ ~onProgress
    /\ N = 2
    /\ lastRun.n = 2
    /\ lastRun.sink
    /\ Len(lastRun.progress) = 6
    /\ Len(Ops) = 4

\* ------------------------------------------------------------------------
\* Markup renderer: further properties
\* ------------------------------------------------------------------------

\* Two well-formed spans of a line of one kind, the second the next span after
\* the first.
NextSpanOfKind(lt, sp1, sp2) ==
    /\ lt[sp1.from] = lt[sp2.from]
    /\ sp1.to < sp2.from
    /\ \A sp \in WellFormedSpans(lt, 1) : ~(sp1.to < sp.from /\ sp.from < sp2.from)

\* C17: two well-formed spans of one kind on a line, one after the other, are
\* rendered as two span segments, each with the text up to the first closing
\* tag after its opening tag, with the text between them as one plain-text
\* segment between the two; no span segment covers both.
C17_NonGreedy ==
    rpc = "rendered" =>
        \A k \in 1..NumLines :
            LET lt == LineToks(k)
                segs == rendered.lines[k].segments
                kind(sp) == IF lt[sp.from] = OpenB THEN "Bold" ELSE "Highlight"
            IN  \A sp1, sp2 \in WellFormedSpans(lt, 1) :
                    NextSpanOfKind(lt, sp1, sp2) =>
                        /\ \E j \in 1..Len(segs) - 2 :
                             /\ StartOf(segs, j) = CharStart(lt, sp1.from)
                             /\ segs[j] = Segment(kind(sp1),
                                             Flatten(SubSeq(lt, sp1.from + 1, sp1.to - 1)))
                             /\ segs[j + 1] = Segment("PlainText",
                                             Flatten(SubSeq(lt, sp1.to + 1, sp2.from - 1)))
                             /\ segs[j + 2] = Segment(kind(sp2),
                                             Flatten(SubSeq(lt, sp2.from + 1, sp2.to - 1)))
                        /\ \A j \in 1..Len(segs) :
                             IsSpanSegment(segs[j]) =>
                                 ~ /\ StartOf(segs, j) <= CharStart(lt, sp1.from)
                                   /\ StartOf(segs, j) + RawLen(segs[j]) > CharStart(lt, sp2.from)

C17_Witness ==
    /\ rpc = "rendered"
    /\ body = <<OpenB, CloseB, Letter, OpenB, CloseB>>
    /\ NextSpanOfKind(body, [from |-> 1, to |-> 2], [from |-> 4, to |-> 5])
    /\ SubSeq(rendered.lines[1].segments, 2, 4)
           = <<Segment("Bold", <<>>), Segment("PlainText", Letter), Segment("Bold", <<>>)>>

\* A line <b><mark>x</mark></b>, x being text without tags.
IsNestedLine(lt) ==
    /\ Len(lt) >= 4
    /\ lt[1] = OpenB
    /\ lt[2] = OpenMark
    /\ lt[Len(lt) - 1] = CloseMark
    /\ lt[Len(lt)] = CloseB
    /\ \A p \in 3..Len(lt) - 2 : lt[p] \in {Letter, CarriageReturn}

\* C18: a line <b><mark>x</mark></b> is rendered with one span segment, Bold,
\* whose text is the literal <mark>x</mark>; no Highlight segment is made of
\* what stands inside the outer tag.
C18_NoNesting ==
    rpc = "rendered" =>
        \A k \in 1..NumLines :
            LET lt == LineToks(k)
                segs == rendered.lines[k].segments
                spans == {j \in 1..Len(segs) : IsSpanSegment(segs[j])}
            IN  IsNestedLine(lt) =>
                    /\ Cardinality(spans) = 1
                    /\ \A j \in spans :
                         segs[j] = Segment("Bold", Flatten(SubSeq(lt, 2, Len(lt) - 1)))
                    /\ \A j \in 1..Len(segs) : segs[j].kind # "Highlight"

C18_Witness ==
    /\ rpc = "rendered"
    /\ body = <<OpenB, OpenMark, Letter, CloseMark, CloseB>>
    /\ IsNestedLine(LineToks(1))
    /\ rendered.lines[1].segments[2] = Segment("Bold", OpenMark \o Letter \o CloseMark)

\* ------------------------------------------------------------------------
\* Editor: properties
\* ------------------------------------------------------------------------

\* The calls of handlePublish that are under way: rendering, or awaiting
\* publishCarouselToInstagram.
Outstanding == {h \in 1..Len(runs) : runs[h].pc \in {"rendering", "uploading"}}

\* C19: publishCarouselToInstagram is called only with an account, a caption
\* that is not empty and at least one blob.
C19_GuardedUpstream ==
    \A h \in 1..Len(runs) :
        runs[h].pc = "uploading" =>
            /\ runs[h].user # NoUser
            /\ runs[h].caption # ""
            /\ runs[h].blobs # <<>>

\* C20: at most one run is outstanding: no call of handlePublish starts a run
\* while another is rendering or publishing.
C20_OneRunOutstanding == Cardinality(Outstanding) <= 1

\* ------------------------------------------------------------------------
\* Markup renderer: round trip and classification
\* ------------------------------------------------------------------------

RECURSIVE JoinLines(_)
\* The text rendered lines were made from: the raw text of each line, with a
\* newline between one line and the next.
JoinLines(lines) ==
    IF lines = <<>> THEN <<>>
    ELSE IF Len(lines) = 1 THEN RawLine(lines[1].segments)
    ELSE RawLine(lines[1].segments) \o <<"\n">> \o JoinLines(Tail(lines))

\* C29: of a text that is not empty no character is lost and none invented:
\* the raw texts of the segments of each line (a span inside its tags again),
\* the lines joined by newlines, spell the text.
C29_RoundTrip ==
    (rpc = "rendered" /\ body # <<>>) =>
        /\ ~rendered.isNull
        /\ JoinLines(rendered.lines) = Flatten(body)

C29_Witness ==
    /\ rpc = "rendered"
    /\ body = <<OpenB, Letter, CloseB, Newline, OpenMark>>
    /\ Len(rendered.lines) = 2
    /\ JoinLines(rendered.lines) = OpenB \o Letter \o CloseB \o <<"\n">> \o OpenMark

RECURSIVE MatchKinds(_, _)
\* For each part line.split(pattern) makes of s from q on, in order, what it
\* is: "Bold" or "Highlight" for a match of that alternative of the pattern,
\* "PlainText" for the text before, between and after the matches.
MatchKinds(s, q) ==
    IF q > Len(s) THEN <<"PlainText">>
    ELSE LET e == MatchAt(s, q)
         IN  IF e = 0 THEN MatchKinds(s, q + 1)
             ELSE <<"PlainText", IF StartsWithAt(s, OpenB, q) THEN "Bold" ELSE "Highlight">>
                  \o MatchKinds(s, e + 1)

\* C30: a part is rendered as Bold (as Highlight) exactly when it is a match
\* of the <b> (the <mark>) alternative of the pattern; a part between matches
\* is rendered as plain text, also one that begins with an opening tag and
\* ends with the closing tag.
C30_ClassifiedByMatch ==
    (rpc = "rendered" /\ ~rendered.isNull) =>
        \A k \in 1..Len(rendered.lines) :
            LET segs == rendered.lines[k].segments
                kinds == MatchKinds(Flatten(LineToks(k)), 1)
            IN  /\ Len(segs) = Len(kinds)
                /\ \A j \in 1..Len(segs) : segs[j].kind = kinds[j]

\* ------------------------------------------------------------------------
\* Publishing workflow: termination
\* ------------------------------------------------------------------------

\* The run awaits nothing: every upload and every call it started has settled.
NothingAwaited == InFlightUploads = {} /\ Len(responses) = Len(calls)

\* C23: a run has no timeout of its own. It is terminal only with every
\* awaited call settled; it leaves the await of a remote call only by that
\* call's response, so a call that never responds leaves it there for ever;
\* a run of the demo account over at least one blob ends, and ends resolved.
C23_NoInternalTimeout ==
    /\ [](Terminal => NothingAwaited)
    /\ [][(pc \in RemoteAwaits /\ pc' # pc) => Len(responses') = Len(responses) + 1]_vars
    /\ [](((pc \in RemoteAwaits \/ pc = "uploadAwait") => ~NothingAwaited)
          /\ (IsMock => pc # "rejected"))
    /\ (pc # "idle" /\ IsMock /\ N >= 1) ~> (pc = "resolved")

C23_Witness ==
    /\ pc = "publishAwait"
    /\ ~IsMock
    /\ N = 2
    /\ Len(calls) = 4
    /\ Len(responses) = 3

\* The statement C23 denies: a run of an account that is not the demo account
\* always ends. A call that never responds refutes it.
C23_RealRunEnds == (pc # "idle" /\ ~IsMock) ~> Terminal

RECURSIVE Rendered(_, _)
\* Of the first slides of a list, as many as outcomes tells of, those that
\* came out as a blob, in the order of the list.
Rendered(slideIds, outcomes) ==
    IF outcomes = <<>> THEN <<>>
    ELSE LET n == Len(outcomes)
             rest == Rendered(slideIds, SubSeq(outcomes, 1, n - 1))
         IN  IF outcomes[n] = "blob" THEN Append(rest, slideIds[n]) ELSE rest

\* C21: a slide that yields no blob is left out and the run goes on: the blobs
\* gathered, and those handed to the workflow, are the slides that rendered,
\* in slide order, later ones moving up; the workflow is called once every
\* slide was gone through; the step that leaves a slide out sets no error
\* status and no error message, and a run is given up only by a throw.
C21_OmitsAndContinues ==
    /\ [](\A h \in 1..Len(runs) :
            runs[h].pc \in {"rendering", "uploading"} =>
                /\ Len(runs[h].outcomes) = runs[h].i
                /\ runs[h].blobs = Rendered(INITIAL_SLIDES, runs[h].outcomes)
                /\ runs[h].pc = "uploading" <=> runs[h].i = Len(INITIAL_SLIDES))
    /\ [][\A h \in 1..Len(runs) :
            (/\ runs[h].pc = "rendering"
             /\ Len(runs') = Len(runs)
             /\ runs'[h] # runs[h]
             /\ runs'[h].pc # "timer")
            => /\ runs'[h].pc \in {"rendering", "uploading"}
               /\ Len(runs'[h].outcomes) = Len(runs[h].outcomes) + 1
               /\ publishStatus' \in {publishStatus, "uploading"}
               /\ statusMessage' # Status("An error occurred during publication.", 0, 0)]_vars
    /\ [](\A h \in 1..Len(runs) :
            runs[h].pc \in {"timer", "done"} => runs[h].ended \in {"throw", "resolved", "rejected"})

C21_Witness ==
    \E h \in 1..Len(runs) :
        /\ runs[h].pc = "uploading"
        /\ runs[h].outcomes = <<"blob", "null", "blob", "blob">>
        /\ runs[h].blobs = <<1, 3, 4>>
        /\ publishStatus = "uploading"

\* The moves of publishStatus along idle, rendering, uploading, success or
\* error, idle; error is reached from rendering too, by a run given up there.
StatusMoves ==
    {<<"idle", "rendering">>, <<"rendering", "uploading">>, <<"rendering", "error">>,
     <<"uploading", "success">>, <<"uploading", "error">>,
     <<"success", "idle">>, <<"error", "idle">>}

\* C27: publishStatus changes only by one of StatusMoves; no run starts
\* without an account; the status is uploading while
\* publishCarouselToInstagram is awaited; it is never publishing; a run that
\* settles leaves it success or error; from success or error it comes back to
\* idle, with the empty message.
C27_StatusPath ==
    /\ [][publishStatus' # publishStatus
            => <<publishStatus, publishStatus'>> \in StatusMoves]_vars
    /\ [][instagramUser = NoUser => Len(runs') = Len(runs)]_vars
    /\ [](\A h \in 1..Len(runs) : runs[h].pc = "uploading" => publishStatus = "uploading")
    /\ [](publishStatus # "publishing")
    /\ [][\A h \in 1..Len(runs) :
            (runs[h].pc \in {"rendering", "uploading"} /\ runs'[h].pc = "timer")
            => publishStatus' \in {"success", "error"}]_vars
    /\ (publishStatus \in {"success", "error"})
           ~> (publishStatus = "idle" /\ statusMessage = NoMessage)

\* ------------------------------------------------------------------------
\* Slide list: properties
\* ------------------------------------------------------------------------

\* C24: after removeSlide selectedSlideId is the id of a slide of the list,
\* and an edit addressed to selectedSlideId changes a slide.
C24_SelectionRemains ==
    Rendering =>
        /\ lastOp.op = "removeSlide" => selectedSlideId \in Ids(slides)
        /\ lastOp.op = "editSelectedId" => lastOp.applied

\* C25: the slide list is never empty.
C25_NeverEmpty == slides # <<>>

\* ------------------------------------------------------------------------
\* Login: properties
\* ------------------------------------------------------------------------

\* The call found an app id and a page served over https or from localhost
\* or 127.0.0.1.
RealAuthPossible ==
    /\ env.hasWindow
    /\ env.appId # "" \/ env.envAppId # ""
    /\ env.protocol = "https:" \/ env.hostname \in {"localhost", "127.0.0.1"}

\* C22: the Facebook SDK is initialised or called only when an app id was
\* there and the page is served over https or from localhost/127.0.0.1; a
\* call that found otherwise resolves with the account MOCK_USER_ID; and a
\* publish step of the account connected posts a request if and only if the
\* id of the account is not MOCK_USER_ID, whatever its access token.
C22_ModeByIdentity ==
    /\ (sdk # "untouched" \/ fbLogin) => RealAuthPossible
    /\ (lpc # "idle" /\ ~RealAuthPossible) =>
          /\ sdk = "untouched" /\ ~fbLogin
          /\ lpc \in {"mockWait", "resolved", "connected"}
          /\ lpc \in {"resolved", "connected"} => loginResult.id = MOCK_USER_ID
    /\ lpc = "connected" =>
          /\ \A k \in 1..Len(calls) :
                /\ calls[k].url.user = instagramUser.id
                /\ calls[k].url.access_token = instagramUser.accessToken
          /\ Len(fetches) = IF instagramUser.id = MOCK_USER_ID THEN 0 ELSE Len(calls)

\* An app id typed in on a page served over http from another host: the
\* account connected is the demo account and its three steps posted nothing.
C22_Witness ==
    /\ lpc = "connected"
    /\ env.appId # "" /\ env.protocol = "http:" /\ env.hostname = "example.com"
    /\ instagramUser = DemoUser
    /\ Len(calls) = 3 /\ fetches = <<>>

\* C26: loginToInstagram never rejects, and a call in which the real
\* authentication failed resolves with the demo account, whose publish steps
\* are simulated.
C26_FailureGivesDemo ==
    /\ lpc # "rejected"
    /\ (lpc \in {"resolved", "connected"} /\ failure # "") => loginResult = DemoUser
    /\ (lpc = "connected" /\ failure # "") => fetches = <<>>

\* ------------------------------------------------------------------------
\* Format buttons: properties
\* ------------------------------------------------------------------------

\* How one character of a text is rendered: in a segment of which kind, shown
\* or (a character of the tags of a span) not, in which line and segment.
Mark(kind, shown, line, seg) == [kind |-> kind, shown |-> shown, line |-> line, seg |-> seg]

\* The characters of one segment: a span is its tags around its text.
SegmentMarks(s, line, seg) ==
    IF s.kind = "PlainText"
    THEN [p \in 1..Len(s.text) |-> Mark(s.kind, TRUE, line, seg)]
    ELSE LET open == IF s.kind = "Bold" THEN Len(OpenB) ELSE Len(OpenMark)
         IN  [p \in 1..(2 * open + 1 + Len(s.text)) |->
                 Mark(s.kind, p > open /\ p <= open + Len(s.text), line, seg)]

RECURSIVE LineMarks(_, _, _)
LineMarks(segments, line, seg) ==
    IF seg > Len(segments) THEN <<>>
    ELSE SegmentMarks(segments[seg], line, seg) \o LineMarks(segments, line, seg + 1)

RECURSIVE TextMarks(_, _)
TextMarks(lines, k) ==
    IF k > Len(lines) THEN <<>>
    ELSE LineMarks(lines[k].segments, k, 1)
         \o (IF lines[k].br THEN <<Mark("br", FALSE, k, 0)>> ELSE <<>>)
         \o TextMarks(lines, k + 1)

\* The marks of the characters of a text, one for each, as it is rendered.
Marks(text) == TextMarks(renderFormattedText(text).lines, 1)

\* How a character looks: the kind of its segment, and whether it is shown.
Look(m) == <<m.kind, m.shown>>

\* C28: after handleFormatText(tag) on a selection the selected text renders
\* as one segment of the kind of the tag, between the two tags, and every
\* character before and after the selection renders as it did.
C28_ExactlySelection ==
    formatted.n > 0 =>
        LET old == Marks(formatted.text)
            new == Marks(slideBody)
            open == Len(openTag(formatted.tag))
            shift == 2 * open + 1
            kind == IF formatted.tag = "b" THEN "Bold" ELSE "Highlight"
            first == formatted.start + 1
            last == formatted.end + shift
        IN  /\ \A p \in 1..formatted.start : Look(new[p]) = Look(old[p])
            /\ \A p \in (formatted.end + 1)..Len(formatted.text) :
                  Look(new[p + shift]) = Look(old[p])
            /\ \A p \in first..last :
                  /\ new[p].kind = kind
                  /\ new[p].shown <=> (p > formatted.start + open /\ p <= formatted.end + open)
                  /\ new[p].line = new[first].line /\ new[p].seg = new[first].seg

====
